---- MODULE Spec2Model ----
(***************************************************************************)
(* The incremental indexer of injestdb (src/unnamed/part_000) as a state   *)
(* machine.  Every action is one run of JavaScript between two suspension  *)
(* points: the effect of the awaited operation (an archive read, a store   *)
(* read or write, a lock acquisition) followed by the synchronous code up  *)
(* to the next await.                                                      *)
(*                                                                         *)
(* Scope: one handle per archive URL, at most one addArchive,              *)
(* waitTillIndexed and resetOutdatedIndexes call in its pre-lock phase at  *)
(* a time; any number of index / unindex calls up to MaxQueue waiting on   *)
(* the lock.  The schema differ of src/lib/schemas.js is a pure function;  *)
(* SpecDiff applies it to every pair of schemas of at most two tables.     *)
(***************************************************************************)
EXTENDS Integers, Sequences, FiniteSets, TLC

\* ------------------------------------------------------------------ bounds
MaxVersion == 2
MaxQueue == 2
MaxLeaked == 1
MaxCalls == 2

\* ------------------------------------------------------------- the schema
Archives == {"dat://a"}
Paths == {"/posts/a.json", "/notes/b.json"}
\* db.tables, in declared order
TableNames == <<"posts", "notes">>
Tables == {TableNames[i] : i \in 1..Len(TableNames)}

\* table.isRecordFile(filepath): "posts" takes /posts/*, "notes" takes every
\* path, so /posts/a.json is matched by both tables
isRecordFile(t, p) ==
  \/ t = "posts" /\ p = "/posts/a.json"
  \/ t = "notes"

\* anymatch(db._tablePathPatterns, path)
anymatch(p) == \E t \in Tables : isRecordFile(t, p)

\* the loop "index on the first matching table": 0 when no table matches
FirstTableFrom(i, p) ==
  LET RECURSIVE scan(_)
      scan(j) == IF j > Len(TableNames) THEN 0
                 ELSE IF isRecordFile(TableNames[j], p) THEN j
                 ELSE scan(j + 1)
  IN scan(i)

LastTable(p) ==
  LET S == {j \in 1..Len(TableNames) : isRecordFile(TableNames[j], p)}
  IN IF S = {} THEN 0 ELSE CHOOSE j \in S : \A i \in S : i <= j

FirstTable(p) == FirstTableFrom(1, p)

\* `index:${archive.url}`, the key both indexArchive and unindexArchive lock
LockKeyPerKind(kind, a) == <<kind, a>>

LockKey(kind, a) == <<"index", a>>

LockKeys == {"index", "unindex"} \X Archives

VARIABLES
  history,      \* archive -> its append-only change history (remote state)
  indexMeta,    \* db._indexMeta: archive -> persisted IndexMeta
  records,      \* table -> record URL -> stored content (0: no record)
  db,           \* [isOpen, idx]
  lockHeld,     \* lock key -> is the lock taken
  lockQueue,    \* lock key -> calls waiting in lock(key), FIFO
  cur,          \* lock key -> the call inside the locked section
  archive,      \* archive handle: [_loadPromise, fileEvents]
  leaked,       \* open activity streams no handle field refers to
  suspended,    \* watchArchive calls awaiting archive._loadPromise
  addState,     \* addArchive before it calls indexArchive
  waitState,    \* waitTillIndexed
  resetState,   \* resetOutdatedIndexes
  started,      \* an api call other than resetOutdatedIndexes was made
  calls,        \* api calls made by the application so far
  removed,      \* removeArchive returned and no later call tracks the archive
  ev,           \* the last exit or notification: [op, a, tables, prev, start,
                \* end, version]
  oldSchema,    \* diff(oldSchema, newSchema): the schema of the last version
  newSchema,    \* the schema being registered
  diffOut       \* what diff returned: [state, threw, add, change, remove,
                \* tablesToRebuild]

vars == <<history, indexMeta, records, db, lockHeld, lockQueue, cur, archive,
          leaked, suspended, addState, waitState, resetState, started,
          calls, removed, ev, oldSchema, newSchema, diffOut>>

\* ------------------------------------------------------ the remote archive
Version(a) == Len(history[a])

\* the last history entry of a path, 0 when it never changed
LastEntry(h, p) ==
  LET S == {i \in 1..Len(h) : h[i].path = p}
  IN IF S = {} THEN 0 ELSE CHOOSE i \in S : \A j \in S : j <= i

FileExists(h, p) == LastEntry(h, p) > 0 /\ h[LastEntry(h, p)].type = "put"

\* the content parses and passes the validator of its table
FileValid(h, p) == FileExists(h, p) /\ h[LastEntry(h, p)].ok

\* ----------------------------------------------------------------- values
NoMeta == [present |-> FALSE, version |-> 0, isWritable |-> FALSE]

NoTodo == [st |-> "none", c |-> 0]

Idle == [pc |-> "none", kind |-> "none", by |-> "none", m |-> -1, v |-> -1,
         start |-> 0, end |-> 0,
         todo |-> [p \in Paths |-> NoTodo],
         res |-> [p \in Paths |-> "none"],
         del |-> {}]

NoWait == [pc |-> "idle", m |-> -1, v |-> -1]

NoReset == [pc |-> "idle", i |-> 0,
            pend |-> [a \in Archives |-> NoMeta]]

Ev(op, a) == [op |-> op, a |-> a, tables |-> {}, prev |-> 0, start |-> 0,
              end |-> 0, version |-> 0]

Quiet == Ev("step", "")

\* ------------------------------------------------- schemas (lib/schemas.js)
\* a schema is its table keys in insertion order, each with its value: a table
\* definition, or null for a table deleted in that version; a definition has
\* an optional ingest path and an optional index list
Undefined == [kind |-> "undefined", path |-> "undefined", hasIndex |-> FALSE,
              index |-> {}]

Null == [kind |-> "null", path |-> "undefined", hasIndex |-> FALSE,
         index |-> {}]

IngestPaths == {"undefined", "/posts/*.json", "/entries/*.json"}

IndexLists == {[hasIndex |-> FALSE, index |-> {}],
               [hasIndex |-> TRUE, index |-> {"a"}],
               [hasIndex |-> TRUE, index |-> {"a", "b"}]}

TableDefs == {[kind |-> "table", path |-> ip, hasIndex |-> il.hasIndex,
               index |-> il.index] : ip \in IngestPaths, il \in IndexLists}

SchemaValues == TableDefs \cup {Null}

NoSchema == [defined |-> FALSE, tables |-> <<>>]

EmptySchema == [defined |-> TRUE, tables |-> <<>>]

Schemas ==
  {[defined |-> TRUE, tables |-> ts] :
     ts \in {<<>>}
            \cup {<<<<n, v>>>> : n \in Tables, v \in SchemaValues}
            \cup {<<<<n[1], v1>>, <<n[2], v2>>>> :
                    n \in {q \in Tables \X Tables : q[1] # q[2]},
                    v1 \in SchemaValues, v2 \in SchemaValues}}

NoDiff == [state |-> "none", threw |-> FALSE, add |-> <<>>, change |-> <<>>,
           remove |-> <<>>, tablesToRebuild |-> <<>>]

\* tableName in schema
HasKey(schema, name) ==
  \E i \in 1..Len(schema.tables) : schema.tables[i][1] = name

\* schema[tableName]
Value(schema, name) ==
  IF HasKey(schema, name)
  THEN schema.tables[CHOOSE i \in 1..Len(schema.tables) :
                       schema.tables[i][1] = name][2]
  ELSE Undefined

\* getTableNames: [] for no schema, else all keys except 'version'
getTableNames(schema) ==
  IF ~schema.defined THEN <<>>
  ELSE [i \in 1..Len(schema.tables) |-> schema.tables[i][1]]

\* new Set(array): the first occurrence of each element, in order
RECURSIVE Dedupe(_, _)
Dedupe(seq, seen) ==
  IF seq = <<>> THEN <<>>
  ELSE IF Head(seq) \in seen THEN Dedupe(Tail(seq), seen)
  ELSE <<Head(seq)>> \o Dedupe(Tail(seq), seen \cup {Head(seq)})

\* diffArrays of ./util: what to add and to remove, false when nothing differs
diffArrays(left, right) ==
  IF left = right THEN [differs |-> FALSE, add |-> {}, remove |-> {}]
  ELSE [differs |-> TRUE, add |-> right \ left, remove |-> left \ right]

Truthy(v) == v.kind = "table"

\* diffTables reads oldTableDef.index and oldTableDef.path: a TypeError when
\* the old value is null and the new definition has an index or a path
diffTablesThrows(oldTableDef, newTableDef) ==
  /\ oldTableDef.kind # "table"
  /\ newTableDef.hasIndex \/ newTableDef.path # "undefined"

diffTables(oldTableDef, newTableDef) ==
  [indexDiff |-> IF newTableDef.hasIndex
                 THEN diffArrays(oldTableDef.index, newTableDef.index)
                 ELSE [differs |-> FALSE, add |-> {}, remove |-> {}],
   needsRebuild |-> /\ newTableDef.path # "undefined"
                    /\ oldTableDef.path # newTableDef.path]

\* one iteration of the loop over allTableNames
DiffStep(old, new, d, tableName) ==
  LET oldSchemaHasTable == IF old.defined THEN HasKey(old, tableName) ELSE FALSE
      newSchemaHasTable == Value(new, tableName).kind # "null"
  IN IF d.threw THEN d
     ELSE IF oldSchemaHasTable /\ ~newSchemaHasTable
     THEN [d EXCEPT !.remove = Append(@, tableName)]
     ELSE IF ~oldSchemaHasTable /\ newSchemaHasTable
     THEN [d EXCEPT !.add = Append(@, <<tableName, Value(new, tableName)>>),
                    !.tablesToRebuild = Append(@, tableName)]
     ELSE IF Truthy(Value(new, tableName))
     THEN IF diffTablesThrows(Value(old, tableName), Value(new, tableName))
          THEN [NoDiff EXCEPT !.threw = TRUE]
          ELSE LET tableChanges == diffTables(Value(old, tableName),
                                              Value(new, tableName))
               IN [d EXCEPT
                     !.change = IF tableChanges.indexDiff.differs
                                THEN Append(@, <<tableName, tableChanges>>)
                                ELSE @,
                     !.tablesToRebuild = IF tableChanges.needsRebuild
                                         THEN Append(@, tableName) ELSE @]
     ELSE d

RECURSIVE DiffLoop(_, _, _, _)
DiffLoop(old, new, d, names) ==
  IF names = <<>> THEN d
  ELSE DiffLoop(old, new, DiffStep(old, new, d, Head(names)), Tail(names))

\* exports.diff
diff(old, new) ==
  LET allTableNames == Dedupe(getTableNames(old) \o getTableNames(new), {})
  IN [DiffLoop(old, new, NoDiff, allTableNames) EXCEPT !.state = "returned"]

Init ==
  /\ history = [a \in Archives |-> <<>>]
  \* an archive of an earlier session is persisted at version 0
  /\ indexMeta \in [Archives -> {NoMeta, [present |-> TRUE, version |-> 0,
                                          isWritable |-> TRUE]}]
  /\ records = [t \in Tables |-> [u \in Archives \X Paths |-> 0]]
  /\ db = [isOpen |-> TRUE, idx |-> TRUE]
  /\ lockHeld = [k \in LockKeys |-> FALSE]
  /\ lockQueue = [k \in LockKeys |-> <<>>]
  /\ cur = [k \in LockKeys |-> Idle]
  /\ archive \in [Archives -> {[_loadPromise |-> lp, fileEvents |-> FALSE] :
                               lp \in BOOLEAN}]
  /\ leaked = [a \in Archives |-> 0]
  /\ suspended = [a \in Archives |-> 0]
  /\ addState = [a \in Archives |-> "idle"]
  /\ waitState = [a \in Archives |-> NoWait]
  /\ resetState = NoReset
  /\ started = FALSE
  /\ calls = 0
  /\ removed = [a \in Archives |-> FALSE]
  /\ ev = Ev("init", "")
  /\ oldSchema = NoSchema
  /\ newSchema = EmptySchema
  /\ diffOut = NoDiff

\* --------------------------------------------------------------- helpers
remoteVars == <<history>>
storeVars == <<indexMeta, records>>
lockVars == <<lockHeld, lockQueue, cur>>
watchVars == <<archive, leaked, suspended>>
callVars == <<addState, waitState, resetState>>
schemaVars == <<oldSchema, newSchema, diffOut>>

Call(kind, by) == [kind |-> kind, by |-> by]

\* one more call of the application, within the budget
ApiCall == calls < MaxCalls /\ calls' = calls + 1

RECURSIVE Copies(_, _)
Copies(n, e) == IF n = 0 THEN <<>> ELSE <<e>> \o Copies(n - 1, e)

\* open change-activity streams of an archive
Streams(a) == leaked[a] + (IF archive[a].fileEvents THEN 1 ELSE 0)

\* lock(key) returns a release function; release() frees the lock
LeakLock(k) == lockHeld

Release(k) == [lockHeld EXCEPT ![k] = FALSE]

\* watchArchive up to its first suspension point
watchArchive(a) ==
  IF archive[a].fileEvents
  THEN archive' = archive /\ suspended' = suspended
  ELSE IF archive[a]._loadPromise
  THEN archive' = archive /\ suspended' = [suspended EXCEPT ![a] = @ + 1]
  ELSE /\ archive' = [archive EXCEPT ![a].fileEvents = TRUE]
       /\ suspended' = suspended

CanWatch(a) ==
  archive[a].fileEvents \/ ~archive[a]._loadPromise
    \/ suspended[a] + leaked[a] <= MaxLeaked

unwatchArchive(a) == archive' = [archive EXCEPT ![a].fileEvents = FALSE]

\* the caller of indexArchive / unindexArchive resumes after the call settled;
\* a call that is not watch-triggered makes the application track the archive
Continue(a, by, ok) ==
  IF by = "add" /\ ok THEN
    \* addArchive: exports.watchArchive(db, archive)
    /\ CanWatch(a)
    /\ watchArchive(a)
    /\ removed' = [removed EXCEPT ![a] = FALSE]
  ELSE IF by = "remove" /\ ok THEN
    \* removeArchive: exports.unwatchArchive(db, archive)
    /\ unwatchArchive(a)
    /\ suspended' = suspended
    /\ removed' = [removed EXCEPT ![a] = TRUE]
  ELSE /\ UNCHANGED <<archive, suspended>>
       /\ removed' = [removed EXCEPT ![a] = IF by \in {"watch", "remove"}
                                              THEN @ ELSE FALSE]

\* ----------------------------------------------------- the remote archive
Notify(a, p) == IF anymatch(p) THEN Streams(a) ELSE 0

Changed(a, entry) ==
  LET k == LockKey("index", a)
      n == Notify(a, entry.path)
  IN /\ Version(a) < MaxVersion
     /\ Len(lockQueue[k]) + n <= MaxQueue
     /\ history' = [history EXCEPT ![a] = Append(@, entry)]
     \* the 'changed' listener: indexArchive(db, archive)
     /\ lockQueue' = [lockQueue EXCEPT ![k] = @ \o Copies(n, Call("index", "watch"))]
     /\ ev' = Quiet
     /\ UNCHANGED <<schemaVars, storeVars, db, lockHeld, cur, watchVars, callVars, started,
                    removed, calls>>

ArchiveWrite(a, p, ok) ==
  Changed(a, [path |-> p, type |-> "put", ok |-> ok])

ArchiveDelete(a, p) ==
  /\ FileExists(history[a], p)
  /\ Changed(a, [path |-> p, type |-> "del", ok |-> TRUE])

CloseDb ==
  /\ ApiCall
  /\ db.isOpen
  /\ db' = [isOpen |-> FALSE, idx |-> FALSE]
  /\ ev' = Quiet
  /\ UNCHANGED <<schemaVars, remoteVars, storeVars, lockVars, watchVars, callVars, started,
                 removed>>

OpenDb(idx) ==
  /\ ApiCall
  /\ ~db.isOpen
  /\ db' = [isOpen |-> TRUE, idx |-> idx]
  /\ ev' = Quiet
  /\ UNCHANGED <<schemaVars, remoteVars, storeVars, lockVars, watchVars, callVars, started,
                 removed>>

\* the store loses db.idx while it is open
CorruptDb ==
  /\ ApiCall
  /\ db.isOpen /\ db.idx
  /\ db' = [isOpen |-> TRUE, idx |-> FALSE]
  /\ ev' = Quiet
  /\ UNCHANGED <<schemaVars, remoteVars, storeVars, lockVars, watchVars, callVars, started,
                 removed>>

\* ------------------------------------------------------------ indexArchive
\* the sanity check: !db.isOpen, !db.idx
StoreOpen == db.isOpen

StoreUsable == db.isOpen /\ db.idx

\* scanArchiveHistoryForUpdates: the entries of [start, end) in history order,
\* a later entry of a path overwriting an earlier one; path -> entry index
RECURSIVE ScanFrom(_, _, _, _)
ScanFrom(h, i, end, updates) ==
  IF i >= end \/ i > Len(h) THEN updates
  ELSE ScanFrom(h, i + 1, end,
                IF anymatch(h[i].path)
                THEN [updates EXCEPT ![h[i].path] = i]
                ELSE updates)

scanKeepFirst(h, start, end) ==
  [p \in Paths |->
     LET S == {i \in start..(end - 1) : i <= Len(h) /\ h[i].path = p /\ anymatch(p)}
     IN IF S = {} THEN 0 ELSE CHOOSE i \in S : \A j \in S : i <= j]

scanArchiveHistoryForUpdates(h, start, end) ==
  ScanFrom(h, start, end, [p \in Paths |-> 0])

\* applyUpdates: one unindexFile or readAndIndexFile per changed path
applyAllAsWrites(h, updates) ==
  [p \in Paths |->
     IF updates[p] = 0 THEN NoTodo ELSE [st |-> "read", c |-> 0]]

applyUpdates(h, updates) ==
  [p \in Paths |->
     IF updates[p] = 0 THEN NoTodo
     ELSE IF h[updates[p]].type = "del" THEN [st |-> "del", c |-> 0]
     ELSE [st |-> "read", c |-> 0]]

AllApplied(c) == \A p \in Paths : c.todo[p].st \in {"none", "done"}

\* the window of an index pass: history({start, end})
WindowStart(m) == m + 1

WindowEndInclusive(v) == v

WindowEnd(v) == v + 1

InIndex(k, a, pc) ==
  /\ k = LockKey("index", a)
  /\ cur[k].kind = "index"
  /\ cur[k].pc = pc

\* await lock(...), then the sanity check
IndexAcquire(a) ==
  LET k == LockKey("index", a) IN
  /\ ~lockHeld[k]
  /\ lockQueue[k] # <<>>
  /\ Head(lockQueue[k]).kind = "index"
  /\ lockQueue' = [lockQueue EXCEPT ![k] = Tail(@)]
  /\ IF ~StoreUsable
     THEN \* return console.log(...); finally release()
          /\ lockHeld' = Release(k)
          /\ cur' = cur
          /\ Continue(a, Head(lockQueue[k]).by, TRUE)
          /\ ev' = Ev("IndexUnusable", a)
     ELSE /\ lockHeld' = [lockHeld EXCEPT ![k] = TRUE]
          /\ cur' = [cur EXCEPT ![k] = [Idle EXCEPT !.pc = "fetch",
                                          !.kind = "index",
                                          !.by = Head(lockQueue[k]).by]]
          /\ ev' = Quiet
          /\ UNCHANGED <<archive, suspended, removed>>
  /\ UNCHANGED <<schemaVars, remoteVars, storeVars, db, leaked, callVars, started, calls>>

\* both reads of the Promise.all have resolved
IndexFetched(a, k, m, v) ==
  IF m = -1 \/ v = -1
  THEN /\ cur' = [cur EXCEPT ![k].m = m, ![k].v = v]
       /\ ev' = Quiet
       /\ UNCHANGED <<lockHeld, archive, suspended, removed>>
  ELSE IF m >= v
  THEN \* no index needed
       /\ lockHeld' = Release(k)
       /\ cur' = [cur EXCEPT ![k] = Idle]
       /\ Continue(a, cur[k].by, TRUE)
       /\ ev' = Ev("IndexNoWork", a)
  ELSE /\ cur' = [cur EXCEPT ![k].m = m, ![k].v = v, ![k].pc = "scan",
                             ![k].start = WindowStart(m),
                             ![k].end = WindowEnd(v)]
       /\ ev' = Quiet
       /\ UNCHANGED <<lockHeld, archive, suspended, removed>>

\* IDB.get(db._indexMeta, archive.url), indexMeta || {version: 0}
IndexGetMeta(a) ==
  \E k \in LockKeys :
    /\ InIndex(k, a, "fetch")
    /\ cur[k].m = -1
    /\ IndexFetched(a, k, IF indexMeta[a].present THEN indexMeta[a].version ELSE 0,
                    cur[k].v)
    /\ UNCHANGED <<schemaVars, remoteVars, storeVars, db, lockQueue, leaked, callVars, started, calls>>

\* archive.getInfo()
IndexGetInfo(a) ==
  \E k \in LockKeys :
    /\ InIndex(k, a, "fetch")
    /\ cur[k].v = -1
    /\ IndexFetched(a, k, cur[k].m, Version(a))
    /\ UNCHANGED <<schemaVars, remoteVars, storeVars, db, lockQueue, leaked, callVars, started, calls>>

IndexScan(a) ==
  \E k \in LockKeys :
    /\ InIndex(k, a, "scan")
    /\ cur' = [cur EXCEPT ![k].pc = "apply",
                          ![k].todo = applyUpdates(history[a],
                             scanArchiveHistoryForUpdates(history[a], cur[k].start,
                                                          cur[k].end))]
    /\ ev' = Quiet
    /\ UNCHANGED <<schemaVars, remoteVars, storeVars, db, lockHeld, lockQueue, watchVars,
                   callVars, started, removed, calls>>

Done(k, p, table) ==
  cur' = [cur EXCEPT ![k].todo[p] = [st |-> "done", c |-> 0], ![k].res[p] = table]

\* readAndIndexFile up to IDB.put: archive.readFile, JSON.parse, the first
\* matching table, its validator
readFile(a, p) ==
  \E k \in LockKeys :
    /\ InIndex(k, a, "apply")
    /\ cur[k].todo[p].st = "read"
    /\ IF ~FileValid(history[a], p) \/ FirstTable(p) = 0
       THEN \* caught: console.log('Failed to index', ...); return false
            Done(k, p, "none")
       ELSE cur' = [cur EXCEPT ![k].todo[p] =
                      [st |-> "put", c |-> LastEntry(history[a], p)]]
    /\ ev' = Quiet
    /\ UNCHANGED <<schemaVars, remoteVars, storeVars, db, lockHeld, lockQueue, watchVars,
                   callVars, started, removed, calls>>

\* await IDB.put(table, record); return table.name
putRecord(a, p) ==
  \E k \in LockKeys :
    /\ InIndex(k, a, "apply")
    /\ cur[k].todo[p].st = "put"
    /\ LET t == TableNames[FirstTable(p)] IN
       /\ records' = [records EXCEPT ![t][<<a, p>>] = cur[k].todo[p].c]
       /\ Done(k, p, t)
    /\ ev' = Quiet
    /\ UNCHANGED <<schemaVars, remoteVars, indexMeta, db, lockHeld, lockQueue, watchVars,
                   callVars, started, removed, calls>>

\* unindexFile: IDB.delete on the first matching table
unindexFile(a, p) ==
  \E k \in LockKeys :
    /\ InIndex(k, a, "apply")
    /\ cur[k].todo[p].st = "del"
    /\ IF FirstTable(p) = 0
       THEN Done(k, p, "none") /\ records' = records
       ELSE LET t == TableNames[FirstTable(p)] IN
            /\ records' = [records EXCEPT ![t][<<a, p>>] = 0]
            /\ Done(k, p, t)
    /\ ev' = Quiet
    /\ UNCHANGED <<schemaVars, remoteVars, indexMeta, db, lockHeld, lockQueue, watchVars,
                   callVars, started, removed, calls>>

\* IDB.update(db._indexMeta, archive.url, {_url, version})
UpdateMeta(meta, v) ==
  [present |-> TRUE, version |-> v,
   isWritable |-> meta.present /\ meta.isWritable]

\* the 'indexes-updated' listener of waitTillIndexed
onIndex(w, a, version) ==
  IF w.pc = "listening" /\ version >= w.v THEN NoWait ELSE w

\* new Set(results), "if (!tableName) continue": the tables that get an
\* 'index-updated' notification
updatedTablesAndFalse(results) == {results[p] : p \in Paths}

updatedTables(results) == {results[p] : p \in Paths} \ {"none"}

\* update meta, emit, release
IndexFinish(a) ==
  \E k \in LockKeys :
    /\ InIndex(k, a, "apply")
    /\ AllApplied(cur[k])
    /\ indexMeta' = [indexMeta EXCEPT ![a] = UpdateMeta(@, cur[k].v)]
    /\ waitState' = [waitState EXCEPT ![a] = onIndex(@, a, cur[k].v)]
    /\ lockHeld' = Release(k)
    /\ cur' = [cur EXCEPT ![k] = Idle]
    /\ Continue(a, cur[k].by, TRUE)
    /\ ev' = [op |-> "IndexDone", a |-> a,
              tables |-> updatedTables(cur[k].res),
              prev |-> cur[k].m, start |-> cur[k].start, end |-> cur[k].end,
              version |-> cur[k].v]
    /\ UNCHANGED <<schemaVars, remoteVars, records, db, lockQueue, leaked, addState,
                   resetState, started, calls>>

\* getInfo, the IndexMeta store or history rejects: finally release(), rethrow
IndexThrow(a) ==
  \E k \in LockKeys :
    /\ \/ InIndex(k, a, "fetch")
       \/ InIndex(k, a, "scan")
       \/ InIndex(k, a, "apply") /\ AllApplied(cur[k])
    /\ lockHeld' = Release(k)
    /\ cur' = [cur EXCEPT ![k] = Idle]
    /\ Continue(a, cur[k].by, FALSE)
    /\ ev' = Ev("IndexThrow", a)
    /\ UNCHANGED <<schemaVars, remoteVars, storeVars, db, lockQueue, leaked, callVars, started, calls>>

\* ---------------------------------------------------------- unindexArchive
InUnindex(k, a, pc) ==
  /\ k = LockKey("unindex", a)
  /\ cur[k].kind = "unindex"
  /\ cur[k].pc = pc

UnindexAcquire(a) ==
  LET k == LockKey("unindex", a) IN
  /\ ~lockHeld[k]
  /\ lockQueue[k] # <<>>
  /\ Head(lockQueue[k]).kind = "unindex"
  /\ lockQueue' = [lockQueue EXCEPT ![k] = Tail(@)]
  /\ lockHeld' = [lockHeld EXCEPT ![k] = TRUE]
  /\ cur' = [cur EXCEPT ![k] = [Idle EXCEPT !.pc = "list", !.kind = "unindex",
                                  !.by = Head(lockQueue[k]).by]]
  /\ ev' = Quiet
  /\ UNCHANGED <<schemaVars, remoteVars, storeVars, db, watchVars, callVars, started, removed, calls>>

\* table.listRecordFiles(archive): the files now in the archive that the
\* table's predicate matches
listRecordFiles(t, a) ==
  {<<t, p>> : p \in {q \in Paths : isRecordFile(t, q) /\ FileExists(history[a], q)}}

\* scanArchiveForRecords: flatten(tables.map(listRecordFiles))
scanArchiveForRecords(a) == UNION {listRecordFiles(t, a) : t \in Tables}

UnindexList(a) ==
  \E k \in LockKeys :
    /\ InUnindex(k, a, "list")
    /\ cur' = [cur EXCEPT ![k].pc = "delete", ![k].del = scanArchiveForRecords(a)]
    /\ ev' = Quiet
    /\ UNCHANGED <<schemaVars, remoteVars, storeVars, db, lockHeld, lockQueue, watchVars,
                   callVars, started, removed, calls>>

\* one IDB.delete(match.table, match.recordUrl) of the Promise.all
UnindexDelete(a, match) ==
  \E k \in LockKeys :
    /\ InUnindex(k, a, "delete")
    /\ match \in cur[k].del
    /\ records' = [records EXCEPT ![match[1]][<<a, match[2]>>] = 0]
    /\ cur' = [cur EXCEPT ![k].del = @ \ {match}]
    /\ ev' = Ev("UnindexDelete", a)
    /\ UNCHANGED <<schemaVars, remoteVars, indexMeta, db, lockHeld, lockQueue, watchVars,
                   callVars, started, removed, calls>>

\* IDB.delete(db._indexMeta, archive.url), release
UnindexFinish(a) ==
  \E k \in LockKeys :
    /\ InUnindex(k, a, "delete")
    /\ cur[k].del = {}
    /\ indexMeta' = [indexMeta EXCEPT ![a] = NoMeta]
    /\ lockHeld' = Release(k)
    /\ cur' = [cur EXCEPT ![k] = Idle]
    /\ Continue(a, cur[k].by, TRUE)
    /\ ev' = Ev("UnindexDone", a)
    /\ UNCHANGED <<schemaVars, remoteVars, records, db, lockQueue, leaked, callVars, started, calls>>

\* the record listing or the IndexMeta store rejects
UnindexThrow(a) ==
  \E k \in LockKeys :
    /\ \/ InUnindex(k, a, "list")
       \/ InUnindex(k, a, "delete") /\ cur[k].del = {}
    /\ lockHeld' = Release(k)
    /\ cur' = [cur EXCEPT ![k] = Idle]
    /\ Continue(a, cur[k].by, FALSE)
    /\ ev' = Ev("UnindexThrow", a)
    /\ UNCHANGED <<schemaVars, remoteVars, storeVars, db, lockQueue, leaked, callVars, started, calls>>

\* ---------------------------------------------------------------- the api
Enqueue(kind, by, a) ==
  LET k == LockKey(kind, a) IN
  /\ Len(lockQueue[k]) < MaxQueue
  /\ lockQueue' = [lockQueue EXCEPT ![k] = Append(@, Call(kind, by))]

\* exports.indexArchive called by the application
indexArchive(a) ==
  /\ ApiCall
  /\ Enqueue("index", "direct", a)
  /\ started' = TRUE
  /\ removed' = [removed EXCEPT ![a] = FALSE]
  /\ ev' = Quiet
  /\ UNCHANGED <<schemaVars, remoteVars, storeVars, db, lockHeld, cur, watchVars, callVars>>

addArchive(a) ==
  /\ ApiCall
  /\ addState[a] = "idle"
  /\ addState' = [addState EXCEPT ![a] = "info"]
  /\ started' = TRUE
  /\ removed' = [removed EXCEPT ![a] = FALSE]
  /\ ev' = Quiet
  /\ UNCHANGED <<schemaVars, remoteVars, storeVars, db, lockVars, watchVars, waitState,
                 resetState>>

\* var info = await archive.getInfo(); archive.isWritable = info.isOwner
AddGetInfo(a) ==
  /\ addState[a] = "info"
  /\ addState' = [addState EXCEPT ![a] = "put"]
  /\ ev' = Quiet
  /\ UNCHANGED <<schemaVars, remoteVars, storeVars, db, lockVars, watchVars, waitState,
                 resetState, started, removed, calls>>

AddThrow(a) ==
  /\ addState[a] \in {"info", "put"}
  /\ addState' = [addState EXCEPT ![a] = "idle"]
  /\ ev' = Ev("AddThrow", a)
  /\ UNCHANGED <<schemaVars, remoteVars, storeVars, db, lockVars, watchVars, waitState,
                 resetState, started, removed, calls>>

\* the fresh IndexMeta of addArchive: {_url, version: 0, isWritable}
FreshMeta(meta) == [present |-> TRUE, version |-> 0, isWritable |-> TRUE]

\* await IDB.put(db._indexMeta, ...), then indexArchive(db, archive)
AddPut(a) ==
  /\ addState[a] = "put"
  /\ indexMeta' = [indexMeta EXCEPT ![a] = FreshMeta(@)]
  /\ Enqueue("index", "add", a)
  /\ addState' = [addState EXCEPT ![a] = "idle"]
  /\ ev' = Ev("AddPut", a)
  /\ removed' = [removed EXCEPT ![a] = FALSE]
  /\ UNCHANGED <<schemaVars, remoteVars, records, db, lockHeld, cur, watchVars, waitState,
                 resetState, started, calls>>

\* removeArchive: await unindexArchive(db, archive)
removeArchive(a) ==
  /\ ApiCall
  /\ Enqueue("unindex", "remove", a)
  /\ started' = TRUE
  /\ ev' = Quiet
  /\ UNCHANGED <<schemaVars, remoteVars, storeVars, db, lockHeld, cur, watchVars, callVars,
                 removed>>

\* loadArchives: for each persisted IndexMeta, indexArchive and watchArchive
RECURSIVE LoadQueue(_, _)
LoadQueue(q, S) ==
  IF S = {} THEN q
  ELSE LET a == CHOOSE x \in S : TRUE
           k == LockKey("index", a)
       IN LoadQueue([q EXCEPT ![k] = Append(@, Call("index", "load"))], S \ {a})

loadArchives ==
  LET S == {a \in Archives : indexMeta[a].present} IN
  /\ ~started
  /\ ApiCall
  /\ started' = TRUE
  /\ lockQueue' = LoadQueue(lockQueue, S)
  /\ archive' = [a \in Archives |->
                   IF a \in S /\ ~archive[a]._loadPromise
                   THEN [archive[a] EXCEPT !.fileEvents = TRUE] ELSE archive[a]]
  /\ suspended' = [a \in Archives |->
                     IF a \in S /\ archive[a]._loadPromise
                     THEN suspended[a] + 1 ELSE suspended[a]]
  /\ ev' = Quiet
  /\ UNCHANGED <<schemaVars, remoteVars, storeVars, db, lockHeld, cur, leaked, callVars,
                 removed>>

\* exports.watchArchive called by the application
WatchCall(a) ==
  /\ ApiCall
  /\ CanWatch(a)
  /\ watchArchive(a)
  /\ started' = TRUE
  /\ ev' = Quiet
  /\ UNCHANGED <<schemaVars, remoteVars, storeVars, db, lockVars, leaked, callVars, removed>>

\* after await archive._loadPromise: createFileActivityStream, no second check
\* of archive.fileEvents; a stream already in the field stays open
WatchResume(a) ==
  /\ suspended[a] > 0
  /\ archive[a].fileEvents => leaked[a] < MaxLeaked
  /\ suspended' = [suspended EXCEPT ![a] = @ - 1]
  /\ leaked' = [leaked EXCEPT ![a] = IF archive[a].fileEvents THEN @ + 1 ELSE @]
  /\ archive' = [archive EXCEPT ![a].fileEvents = TRUE]
  /\ ev' = Quiet
  /\ UNCHANGED <<schemaVars, remoteVars, storeVars, db, lockVars, callVars, started, removed, calls>>

\* exports.unwatchArchive called by the application
UnwatchCall(a) ==
  /\ ApiCall
  /\ unwatchArchive(a)
  /\ started' = TRUE
  /\ ev' = Quiet
  /\ UNCHANGED <<schemaVars, remoteVars, storeVars, db, lockVars, leaked, suspended,
                 callVars, removed>>

\* --------------------------------------------------------- waitTillIndexed
waitTillIndexed(a) ==
  /\ ApiCall
  /\ waitState[a].pc = "idle"
  /\ waitState' = [waitState EXCEPT ![a] = [NoWait EXCEPT !.pc = "fetch"]]
  /\ started' = TRUE
  /\ ev' = Quiet
  /\ UNCHANGED <<schemaVars, remoteVars, storeVars, db, lockVars, watchVars, addState,
                 resetState, removed>>

\* both reads resolved: "done?", else db.on('indexes-updated', onIndex)
WaitFetched(a, m, v) ==
  IF m = -1 \/ v = -1
  THEN /\ waitState' = [waitState EXCEPT ![a].m = m, ![a].v = v]
       /\ ev' = Quiet
  ELSE IF m >= v
  THEN /\ waitState' = [waitState EXCEPT ![a] = NoWait]
       /\ ev' = Ev("WaitDone", a)
  ELSE /\ waitState' = [waitState EXCEPT ![a].m = m, ![a].v = v,
                                         ![a].pc = "listening"]
       /\ ev' = Quiet

WaitGetMeta(a) ==
  /\ waitState[a].pc = "fetch"
  /\ waitState[a].m = -1
  /\ WaitFetched(a, IF indexMeta[a].present THEN indexMeta[a].version ELSE 0,
                 waitState[a].v)
  /\ UNCHANGED <<schemaVars, remoteVars, storeVars, db, lockVars, watchVars, addState,
                 resetState, started, removed, calls>>

WaitGetInfo(a) ==
  /\ waitState[a].pc = "fetch"
  /\ waitState[a].v = -1
  /\ WaitFetched(a, waitState[a].m, Version(a))
  /\ UNCHANGED <<schemaVars, remoteVars, storeVars, db, lockVars, watchVars, addState,
                 resetState, started, removed, calls>>

\* ---------------------------------------------------- resetOutdatedIndexes
\* flagged: db._tablesToRebuild.length > 0
resetOutdatedIndexes(flagged) ==
  /\ ApiCall
  /\ resetState.pc = "idle"
  /\ IF flagged
     THEN /\ resetState' = [NoReset EXCEPT !.pc = "clear", !.i = 1]
          /\ ev' = Quiet
     ELSE /\ resetState' = resetState
          /\ ev' = Ev("ResetFalse", "")
  /\ UNCHANGED <<schemaVars, remoteVars, storeVars, db, lockVars, watchVars, addState,
                 waitState, started, removed>>

\* await IDB.clear(tables[i])
ResetClear ==
  /\ resetState.pc = "clear"
  /\ records' = [records EXCEPT ![TableNames[resetState.i]] =
                   [u \in Archives \X Paths |-> 0]]
  /\ resetState' = IF resetState.i = Len(TableNames)
                   THEN [resetState EXCEPT !.pc = "each", !.i = 0]
                   ELSE [resetState EXCEPT !.i = @ + 1]
  /\ ev' = Quiet
  /\ UNCHANGED <<schemaVars, remoteVars, indexMeta, db, lockVars, watchVars, addState,
                 waitState, started, removed, calls>>

ResetReturn ==
  /\ resetState' = NoReset
  /\ ev' = Ev("ResetTrue", "")

\* await db._indexMeta.each(...): every IndexMeta read, its put started
ResetEach ==
  /\ resetState.pc = "each"
  /\ IF \A a \in Archives : ~indexMeta[a].present
     THEN ResetReturn
     ELSE /\ resetState' = [resetState EXCEPT !.pc = "put", !.pend = indexMeta]
          /\ ev' = Quiet
  /\ UNCHANGED <<schemaVars, remoteVars, storeVars, db, lockVars, watchVars, addState,
                 waitState, started, removed, calls>>

\* one IDB.put(db._indexMeta, indexMeta) with version 0; the last one resolves
\* the Promise.all
ResetPut(a) ==
  /\ resetState.pc = "put"
  /\ resetState.pend[a].present
  /\ indexMeta' = [indexMeta EXCEPT ![a] = [resetState.pend[a] EXCEPT !.version = 0]]
  /\ IF \A b \in Archives \ {a} : ~resetState.pend[b].present
     THEN ResetReturn
     ELSE /\ resetState' = [resetState EXCEPT !.pend[a] = NoMeta]
          /\ ev' = Quiet
  /\ UNCHANGED <<schemaVars, remoteVars, records, db, lockVars, watchVars, addState,
                 waitState, started, removed, calls>>

\* ------------------------------------------------------- the specification
Next ==
  \/ \E a \in Archives, p \in Paths, ok \in BOOLEAN : ArchiveWrite(a, p, ok)
  \/ \E a \in Archives, p \in Paths : ArchiveDelete(a, p)
  \/ CloseDb
  \/ \E idx \in BOOLEAN : OpenDb(idx)
  \/ CorruptDb
  \/ \E a \in Archives : indexArchive(a)
  \/ \E a \in Archives : IndexAcquire(a)
  \/ \E a \in Archives : IndexGetMeta(a)
  \/ \E a \in Archives : IndexGetInfo(a)
  \/ \E a \in Archives : IndexScan(a)
  \/ \E a \in Archives, p \in Paths : readFile(a, p)
  \/ \E a \in Archives, p \in Paths : putRecord(a, p)
  \/ \E a \in Archives, p \in Paths : unindexFile(a, p)
  \/ \E a \in Archives : IndexFinish(a)
  \/ \E a \in Archives : IndexThrow(a)
  \/ \E a \in Archives : UnindexAcquire(a)
  \/ \E a \in Archives : UnindexList(a)
  \/ \E a \in Archives, match \in Tables \X Paths : UnindexDelete(a, match)
  \/ \E a \in Archives : UnindexFinish(a)
  \/ \E a \in Archives : UnindexThrow(a)
  \/ \E a \in Archives : addArchive(a)
  \/ \E a \in Archives : AddGetInfo(a)
  \/ \E a \in Archives : AddThrow(a)
  \/ \E a \in Archives : AddPut(a)
  \/ \E a \in Archives : removeArchive(a)
  \/ loadArchives
  \/ \E a \in Archives : WatchCall(a)
  \/ \E a \in Archives : WatchResume(a)
  \/ \E a \in Archives : UnwatchCall(a)
  \/ \E a \in Archives : waitTillIndexed(a)
  \/ \E a \in Archives : WaitGetMeta(a)
  \/ \E a \in Archives : WaitGetInfo(a)
  \/ \E flagged \in BOOLEAN : resetOutdatedIndexes(flagged)
  \/ ResetClear
  \/ ResetEach
  \/ \E a \in Archives : ResetPut(a)

Spec == Init /\ [][Next]_vars

\* an archive added or loaded, watched, changed and removed, with a store that
\* stays open, no rejected promise and no rebuild
NextLifecycle ==
  \/ \E a \in Archives, p \in Paths, ok \in BOOLEAN : ArchiveWrite(a, p, ok)
  \/ \E a \in Archives, p \in Paths : ArchiveDelete(a, p)
  \/ \E a \in Archives : IndexAcquire(a)
  \/ \E a \in Archives : IndexGetMeta(a)
  \/ \E a \in Archives : IndexGetInfo(a)
  \/ \E a \in Archives : IndexScan(a)
  \/ \E a \in Archives, p \in Paths : readFile(a, p)
  \/ \E a \in Archives, p \in Paths : putRecord(a, p)
  \/ \E a \in Archives, p \in Paths : unindexFile(a, p)
  \/ \E a \in Archives : IndexFinish(a)
  \/ \E a \in Archives : addArchive(a)
  \/ \E a \in Archives : AddGetInfo(a)
  \/ \E a \in Archives : AddPut(a)
  \/ loadArchives
  \/ \E a \in Archives : WatchResume(a)
  \/ \E a \in Archives : removeArchive(a)
  \/ \E a \in Archives : UnindexAcquire(a)
  \/ \E a \in Archives : UnindexList(a)
  \/ \E a \in Archives, match \in Tables \X Paths : UnindexDelete(a, match)
  \/ \E a \in Archives : UnindexFinish(a)

SpecLifecycle == Init /\ [][NextLifecycle]_vars

\* index and unindex passes alone: direct calls, thrown errors, a store that
\* closes and reopens
NextPasses ==
  \/ \E a \in Archives, p \in Paths, ok \in BOOLEAN : ArchiveWrite(a, p, ok)
  \/ \E a \in Archives, p \in Paths : ArchiveDelete(a, p)
  \/ CloseDb
  \/ \E idx \in BOOLEAN : OpenDb(idx)
  \/ CorruptDb
  \/ \E a \in Archives : indexArchive(a)
  \/ \E a \in Archives : IndexAcquire(a)
  \/ \E a \in Archives : IndexGetMeta(a)
  \/ \E a \in Archives : IndexGetInfo(a)
  \/ \E a \in Archives : IndexScan(a)
  \/ \E a \in Archives, p \in Paths : readFile(a, p)
  \/ \E a \in Archives, p \in Paths : putRecord(a, p)
  \/ \E a \in Archives, p \in Paths : unindexFile(a, p)
  \/ \E a \in Archives : IndexFinish(a)
  \/ \E a \in Archives : IndexThrow(a)
  \/ \E a \in Archives : removeArchive(a)
  \/ \E a \in Archives : UnindexAcquire(a)
  \/ \E a \in Archives : UnindexList(a)
  \/ \E a \in Archives, match \in Tables \X Paths : UnindexDelete(a, match)
  \/ \E a \in Archives : UnindexFinish(a)
  \/ \E a \in Archives : UnindexThrow(a)

SpecPasses == Init /\ [][NextPasses]_vars

\* ------------------------------------------------------- the schema differ
\* db.schema(...) registers a version: diff(oldSchema, newSchema)
Diff ==
  /\ diffOut.state = "none"
  /\ diffOut' = diff(oldSchema, newSchema)
  /\ UNCHANGED <<oldSchema, newSchema, remoteVars, storeVars, db, lockVars,
                 watchVars, callVars, started, calls, removed, ev>>

\* every pair of schemas of at most two tables; no schema before the first
\* version
InitDiff ==
  /\ oldSchema \in Schemas \cup {NoSchema}
  /\ newSchema \in Schemas
  /\ diffOut = NoDiff
  /\ history = [a \in Archives |-> <<>>]
  /\ indexMeta = [a \in Archives |-> NoMeta]
  /\ records = [t \in Tables |-> [u \in Archives \X Paths |-> 0]]
  /\ db = [isOpen |-> TRUE, idx |-> TRUE]
  /\ lockHeld = [k \in LockKeys |-> FALSE]
  /\ lockQueue = [k \in LockKeys |-> <<>>]
  /\ cur = [k \in LockKeys |-> Idle]
  /\ archive = [a \in Archives |-> [_loadPromise |-> FALSE, fileEvents |-> FALSE]]
  /\ leaked = [a \in Archives |-> 0]
  /\ suspended = [a \in Archives |-> 0]
  /\ addState = [a \in Archives |-> "idle"]
  /\ waitState = [a \in Archives |-> NoWait]
  /\ resetState = NoReset
  /\ started = FALSE
  /\ calls = 0
  /\ removed = [a \in Archives |-> FALSE]
  /\ ev = Ev("init", "")

NextDiff == Diff

SpecDiff == InitDiff /\ [][NextDiff]_vars

\* ------------------------------------------------------------- the claims
KeysOf(a) == {k \in LockKeys : k[2] = a}

InSection(k) == cur[k].pc # "none"

\* nothing of the archive is running or waiting to run
Quiescent(a) ==
  /\ \A k \in KeysOf(a) : ~InSection(k) /\ lockQueue[k] = <<>>
  /\ addState[a] = "idle"
  /\ suspended[a] = 0

RecordOf(a, p) ==
  IF FirstTable(p) = 0 THEN 0 ELSE records[TableNames[FirstTable(p)]][<<a, p>>]

NoRecord(a, p) == \A t \in Tables : records[t][<<a, p>>] = 0

\* C1: when no index pass, unindex pass or rebuild reset is in flight and the
\* persisted IndexMeta version equals the remote version, every table-matched
\* file with valid content has a record holding its latest content, and a
\* deleted path or a path whose latest content is invalid has no record.
C1_StoreReflectsArchive ==
  \A a \in Archives :
    (/\ \A k \in KeysOf(a) : ~InSection(k) /\ lockQueue[k] = <<>>
     /\ resetState.pc = "idle"
     /\ indexMeta[a].present
     /\ indexMeta[a].version = Version(a))
    => \A p \in Paths :
         anymatch(p) =>
           IF FileValid(history[a], p)
           THEN RecordOf(a, p) = LastEntry(history[a], p)
           ELSE NoRecord(a, p)

\* C2: the persisted IndexMeta version of an archive that stays tracked never
\* decreases in a step, except in a step of resetOutdatedIndexes writing 0.
C2_VersionNeverDecreases ==
  [][\A a \in Archives :
       (/\ indexMeta[a].present
        /\ indexMeta'[a].present
        /\ indexMeta'[a].version < indexMeta[a].version)
       => (/\ resetState.pc = "put"
           /\ resetState' # resetState
           /\ indexMeta'[a].version = 0)]_vars

C4_PassAdvancesToRemoteVersion ==
  \A a \in Archives :
    (ev.op = "IndexDone" /\ ev.a = a)
    => /\ indexMeta[a].present
       /\ indexMeta[a].version = ev.version
       /\ ev.start = ev.prev + 1
       /\ ev.end = ev.version + 1
       /\ ev.start < ev.end

\* a pass that started from an already indexed version has returned
C4_Witness == ev.op = "IndexDone" /\ ev.prev = 1 /\ ev.version = 2

\* C5: the lock of an archive is taken exactly while a call is inside its
\* locked section: every exit (normal, early return, thrown error) has
\* released it, so the next queued call can acquire it.
C5_LockReleasedOnEveryExit ==
  /\ \A k \in LockKeys : lockHeld[k] <=> InSection(k)
  /\ \A a \in Archives :
       (ev.a = a /\ ev.op \in {"IndexUnusable", "IndexNoWork", "IndexDone",
                               "IndexThrow", "UnindexDone", "UnindexThrow"})
       => \A k \in KeysOf(a) : ~lockHeld[k]

\* a pass threw while another call was queued behind it
C5_Witness ==
  /\ ev.op \in {"IndexThrow", "UnindexThrow"}
  /\ \E k \in KeysOf(ev.a) : lockQueue[k] # <<>>

\* C6: after removeArchive returned and the queued passes finished, no table
\* holds a record of the archive and it has no IndexMeta.
C6_RemovedArchiveLeavesNothing ==
  \A a \in Archives :
    (removed[a] /\ Quiescent(a) /\ resetState.pc = "idle")
    => /\ \A p \in Paths : NoRecord(a, p)
       /\ ~indexMeta[a].present

\* C7: removeArchive has closed the watch subscription before its
\* unindexArchive deletes a record or the IndexMeta.
C7_UnwatchBeforeDelete ==
  [][\A a \in Archives : \A k \in KeysOf(a) :
       (/\ cur[k].kind = "unindex"
        /\ cur[k].by = "remove"
        /\ cur'[k] # cur[k]
        /\ \/ records' # records
           \/ indexMeta'[a] # indexMeta[a])
       => ~archive[a].fileEvents]_vars

\* C8: in the state where resetOutdatedIndexes returns true, every table is
\* empty and every persisted IndexMeta has version 0.
C8_ResetLeavesEmptyStore ==
  ev.op = "ResetTrue"
  => /\ \A t \in Tables : \A u \in Archives \X Paths : records[t][u] = 0
     /\ \A a \in Archives : indexMeta[a].present => indexMeta[a].version = 0

\* C9: a waitTillIndexed call does not stay subscribed once the persisted
\* version has reached the remote version it observed and nothing of the
\* archive is left to run.
C9_WaitResolvesOnceIndexed ==
  \A a \in Archives :
    (/\ waitState[a].pc = "listening"
     /\ Quiescent(a)
     /\ \A k \in KeysOf(a) : ~lockHeld[k])
    => ~(indexMeta[a].present /\ indexMeta[a].version >= waitState[a].v)

\* C10: with the store open and no call failing, once nothing of a watched
\* archive is left to run, its persisted version is the remote version.
C10_NoChangeDropped ==
  \A a \in Archives :
    (archive[a].fileEvents /\ ~removed[a] /\ Quiescent(a))
    => (indexMeta[a].present /\ indexMeta[a].version = Version(a))

\* the history entries of a path inside the window [start, end)
WindowEntries(h, start, end, p) ==
  {i \in start..(end - 1) : i <= Len(h) /\ h[i].path = p}

LastInWindow(h, start, end, p) ==
  LET S == WindowEntries(h, start, end, p)
  IN IF S = {} THEN 0 ELSE CHOOSE i \in S : \A j \in S : j <= i

C12_InvalidContentLeavesNoRecord ==
  \A a \in Archives :
    (ev.op = "IndexDone" /\ ev.a = a)
    => /\ indexMeta[a].present /\ indexMeta[a].version = ev.version
       /\ \A p \in Paths :
            LET L == LastInWindow(history[a], ev.start, ev.end, p)
            IN (anymatch(p) /\ L > 0 /\ LastEntry(history[a], p) = L
                /\ history[a][L].type = "put")
               => IF history[a][L].ok
                  THEN RecordOf(a, p) = L
                  ELSE NoRecord(a, p)

\* C13: an indexArchive call that gets the lock while the store is closed or
\* corrupted returns at once, without entering the pass and without an
\* error, and its step changes no IndexMeta, no record, no waiting
\* 'indexes-updated' listener and nothing of the archive.
C13_UnusableStoreLeavesState ==
  [][\A a \in Archives : \A k \in KeysOf(a) :
       (/\ lockQueue[k] # <<>>
        /\ lockQueue'[k] = Tail(lockQueue[k])
        /\ Head(lockQueue[k]).kind = "index"
        /\ ~db.isOpen \/ ~db.idx)
       => /\ ev'.op = "IndexUnusable" /\ ev'.a = a
          /\ UNCHANGED <<indexMeta, records, waitState, history, cur, lockHeld>>]_vars

\* a call returned from a corrupted open store with a window left to index
C13_Witness ==
  \E a \in Archives :
    /\ ev.op = "IndexUnusable" /\ ev.a = a
    /\ db.isOpen /\ ~db.idx
    /\ Version(a) > (IF indexMeta[a].present THEN indexMeta[a].version ELSE 0)

Live(schema, name) == schema.defined /\ Value(schema, name).kind = "table"

Names(seq) == {seq[i] : i \in 1..Len(seq)}

Count(seq, x) == Cardinality({i \in 1..Len(seq) : seq[i] = x})

\* C15: diff lists in 'remove' exactly the names that are a live table in the
\* old schema and not in the new one (omitted or null); a name that was null
\* in the old schema already is not listed.
C15_RemoveIsLiveOldNotLiveNew ==
  (diffOut.state = "returned" /\ ~diffOut.threw)
  => \A t \in Tables :
       (t \in Names(diffOut.remove))
         <=> (Live(oldSchema, t) /\ ~Live(newSchema, t))

\* C16: diff does not fail, and every name that is a live table in the new
\* schema and not in the old one (absent or null there) is once in 'add' and
\* once in 'tablesToRebuild'.
C16_AddedTablesListedOnce ==
  diffOut.state = "returned"
  => /\ ~diffOut.threw
     /\ \A t \in Tables :
          (Live(newSchema, t) /\ ~Live(oldSchema, t))
          => /\ Count([i \in 1..Len(diffOut.add) |-> diffOut.add[i][1]], t) = 1
             /\ Count(diffOut.tablesToRebuild, t) = 1

\* C17: a table that is live in both schemas is in 'tablesToRebuild' exactly
\* when its ingest path differs between the two definitions, a dropped ingest
\* path included.
C17_RebuildIffIngestPathChanged ==
  (diffOut.state = "returned" /\ ~diffOut.threw)
  => \A t \in Tables :
       (Live(oldSchema, t) /\ Live(newSchema, t))
       => ((t \in Names(diffOut.tablesToRebuild))
             <=> (Value(oldSchema, t).path # Value(newSchema, t).path))

\* C18: a pass that did work notifies in its last step, once: 'indexes-updated'
\* carries the version that IndexMeta holds from that step on, and
\* 'index-updated' goes to exactly the tables in which the pass put or deleted
\* under a record URL; a file operation reports a table only in the step that
\* puts or deletes in that table; a pass that leaves at the sanity check, at
\* the version check or by an error notifies nobody.
C18_NotificationsOfAPass ==
  [][\A a \in Archives : \A k \in KeysOf(a) :
       /\ \A p \in Paths :
            (cur[k].kind = "index" /\ cur'[k].kind = "index"
             /\ cur'[k].res[p] # cur[k].res[p])
            => /\ cur[k].res[p] = "none"
               /\ cur'[k].res[p] = TableNames[FirstTable(p)]
               /\ cur[k].todo[p].st \in {"put", "del"}
               /\ records'[cur'[k].res[p]][<<a, p>>] =
                    (IF cur[k].todo[p].st = "put" THEN cur[k].todo[p].c ELSE 0)
               /\ ev'.op # "IndexDone"
       /\ (ev'.op = "IndexDone" /\ ev'.a = a /\ k = LockKey("index", a))
          => /\ cur[k].kind = "index" /\ cur[k].pc = "apply" /\ cur'[k] = Idle
             /\ ev'.version = cur[k].v
             /\ indexMeta'[a].present /\ indexMeta'[a].version = ev'.version
             /\ ev'.tables = {t \in Tables : \E p \in Paths : cur[k].res[p] = t}
       /\ (cur[k].kind = "index" /\ cur'[k] = Idle /\ cur[k].pc # "apply")
          => ev'.op \in {"IndexNoWork", "IndexThrow"} /\ ev'.tables = {}
       /\ (ev'.op \in {"IndexUnusable", "IndexNoWork", "IndexThrow"})
          => ev'.tables = {} /\ waitState' = waitState /\ indexMeta' = indexMeta]_vars

\* a pass that wrote in two tables has returned
C18_Witness ==
  \E a \in Archives :
    /\ ev.op = "IndexDone" /\ ev.a = a
    /\ ev.tables = {"posts", "notes"}
    /\ ev.version = 2 /\ indexMeta[a].version = 2

\* the table is declared before every other table whose predicate matches
FirstMatching(t, p) ==
  \E j \in 1..Len(TableNames) :
    /\ TableNames[j] = t
    /\ isRecordFile(t, p)
    /\ \A i \in 1..(j - 1) : ~isRecordFile(TableNames[i], p)

\* C19: a record URL is stored in at most one table, the first table in
\* declared order whose predicate matches the path, and every finished write
\* or delete of a pass acted on that table, also for a path that several
\* predicates match.
C19_FirstMatchingTableOnly ==
  \A a \in Archives : \A p \in Paths :
    /\ Cardinality({t \in Tables : records[t][<<a, p>>] # 0}) <= 1
    /\ \A t \in Tables : records[t][<<a, p>>] # 0 => FirstMatching(t, p)
    /\ \A k \in KeysOf(a) :
         (cur[k].kind = "index" /\ cur[k].res[p] # "none")
         => FirstMatching(cur[k].res[p], p)
    /\ (ev.op = "IndexDone" /\ ev.a = a
        /\ LastInWindow(history[a], ev.start, ev.end, p) > 0
        /\ LastInWindow(history[a], ev.start, ev.end, p) = LastEntry(history[a], p)
        /\ ~FileExists(history[a], p))
       => \A t \in Tables : records[t][<<a, p>>] = 0

\* the path both predicates match was stored by one pass and its deletion was
\* applied by the next one, in the same table
C19_Witness ==
  \E a \in Archives :
    /\ ev.op = "IndexDone" /\ ev.a = a /\ ev.prev = 1 /\ ev.version = 2
    /\ isRecordFile("posts", "/posts/a.json") /\ isRecordFile("notes", "/posts/a.json")
    /\ history[a][1] = [path |-> "/posts/a.json", type |-> "put", ok |-> TRUE]
    /\ history[a][2] = [path |-> "/posts/a.json", type |-> "del", ok |-> TRUE]
    /\ ev.tables = {"posts"}
    /\ records["posts"][<<a, "/posts/a.json">>] = 0

\* C20: an archive never has more than one open change-activity stream.
C20_AtMostOneSubscription ==
  \A a \in Archives : Streams(a) <= 1

====
